---- MODULE Spec2Model ----
(***************************************************************************)
(* Model of restful.py: a command-line REST client that issues one GET or  *)
(* POST request, interprets the response and renders the parsed JSON       *)
(* payload to stdout, a .json file or a .csv file.                         *)
(*                                                                         *)
(* Text is a sequence of lines, a line a sequence of string tokens whose   *)
(* concatenation is the characters of the line.  A path is a sequence of   *)
(* characters.  Everything the process does that can be seen from outside  *)
(* (prints, file opens, file writes) is appended to trace in program       *)
(* order; exceptions raised while writing are logged as "raise" events.    *)
(***************************************************************************)
EXTENDS Integers, Sequences, FiniteSets, TLC

VARIABLES pc, args, client, response, trace, file, file0, exitCode, requests

vars == <<pc, args, client, response, trace, file, file0, exitCode, requests>>

(* ----------------------------- bounds ---------------------------------- *)

\* longest JSON array the transport returns
MaxElems == 2

(* ------------------------ Python / JSON values ------------------------- *)

PyNone == [none |-> TRUE, s |-> <<>>]

PyStr(s) == [none |-> FALSE, s |-> s]

\* truth value of an optional string: None and "" are falsy
Truthy(x) == ~x.none /\ Len(x.s) > 0

Null == [t |-> "null", s |-> "", items |-> <<>>, elems |-> <<>>]

Num(s) == [t |-> "num", s |-> s, items |-> <<>>, elems |-> <<>>]

Str(s) == [t |-> "str", s |-> s, items |-> <<>>, elems |-> <<>>]

\* a JSON object as Python parses it: distinct keys, in document order
Map(items) == [t |-> "map", s |-> "", items |-> items, elems |-> <<>>]

List(elems) == [t |-> "list", s |-> "", items |-> <<>>, elems |-> elems]

Keys == {"id", "name"}

\* the key/value pairs the transport's objects are made of
Items ==
  { <<"id", Num("1")>>, <<"id", Num("2")>>, <<"name", Str("a")>>, <<"name", Str("b")>> }

Mappings ==
  { Map(m) : m \in { f \in UNION { [1..n -> Items] : n \in 0..Cardinality(Keys) } :
                       \A i, j \in DOMAIN f : i # j => f[i][1] # f[j][1] } }

Elements == Mappings \cup {Num("1")}

Lists == { List(e) : e \in UNION { [1..n -> Elements] : n \in 0..MaxElems } }

Payloads == Lists \cup Mappings \cup {Null, Num("1"), Str("a")}

IsDict(v) == v.t = "map"

\* isinstance(data, list) and data
IsNonEmptyList(v) == v.t = "list" /\ Len(v.elems) > 0

(* ------------------------------ json.dumps ----------------------------- *)

Indent(lvl) == [i \in 1..lvl |-> "  "]

Quote(s) == "\"" \o s \o "\""

\* variant: Python's repr of None instead of the JSON literal
JsonScalar_Repr(v) ==
  CASE v.t = "null" -> "None"
    [] v.t = "num"  -> v.s
    [] v.t = "str"  -> Quote(v.s)

JsonScalar(v) ==
  CASE v.t = "null" -> "null"
    [] v.t = "num"  -> v.s
    [] v.t = "str"  -> Quote(v.s)

\* put pre in front of the first line of a text
Prefixed(pre, lines) == << pre \o Head(lines) >> \o Tail(lines)

\* put tok at the end of the last line of a text
Suffixed(lines, tok) ==
  [i \in 1..Len(lines) |-> IF i = Len(lines) THEN Append(lines[i], tok) ELSE lines[i]]

RECURSIVE EncodeValue(_, _)
RECURSIVE EncodeList(_, _, _)
RECURSIVE EncodeDict(_, _, _)

\* elements i.. of a list, one per line at depth lvl, comma separated
EncodeList(elems, i, lvl) ==
  IF i > Len(elems) THEN <<>>
  ELSE LET one == Prefixed(Indent(lvl), EncodeValue(elems[i], lvl))
       IN (IF i < Len(elems) THEN Suffixed(one, ",") ELSE one)
            \o EncodeList(elems, i + 1, lvl)

\* items i.. of a dict, "key": value, one per line at depth lvl
EncodeDict(items, i, lvl) ==
  IF i > Len(items) THEN <<>>
  ELSE LET one == Prefixed(Indent(lvl) \o <<Quote(items[i][1]), ": ">>,
                           EncodeValue(items[i][2], lvl))
       IN (IF i < Len(items) THEN Suffixed(one, ",") ELSE one)
            \o EncodeDict(items, i + 1, lvl)

\* the text of value v when it starts on a line at depth lvl
EncodeValue(v, lvl) ==
  CASE v.t = "list" ->
         IF v.elems = <<>> THEN << <<"[]">> >>
         ELSE << <<"[">> >> \o EncodeList(v.elems, 1, lvl + 1)
                \o << Indent(lvl) \o <<"]">> >>
    [] v.t = "map" ->
         IF v.items = <<>> THEN << <<"{}">> >>
         ELSE << <<"{">> >> \o EncodeDict(v.items, 1, lvl + 1)
                \o << Indent(lvl) \o <<"}">> >>
    [] OTHER -> << <<JsonScalar(v)>> >>

\* json.dumps(data, indent=2)
JsonDumps(data) == EncodeValue(data, 0)

(* ------------------------------ csv.writer ----------------------------- *)

\* str() of a cell; None is written as the empty string
CsvField(v) == IF v.t = "null" THEN "" ELSE v.s

RECURSIVE JoinFields(_, _)
JoinFields(fields, i) ==
  IF i > Len(fields) THEN <<>>
  ELSE (IF i > 1 THEN <<",">> ELSE <<>>) \o <<fields[i]>> \o JoinFields(fields, i + 1)

\* writer.writerow(fields): comma delimiter, "\r\n" line terminator
WriteRow(fields) == JoinFields(fields, 1) \o <<"\r\n">>

\* row.keys()
DictKeys(row) == [i \in 1..Len(row.items) |-> row.items[i][1]]

\* row.values(), as csv cells
DictValues(row) == [i \in 1..Len(row.items) |-> CsvField(row.items[i][2])]

\* the header row: writer.writerow(data[0].keys())
CsvHeader(data) == WriteRow(DictKeys(data.elems[1]))

\* variant: the row's keys are written where its values belong
CsvRow_Keys(row) == WriteRow(DictKeys(row))

\* one row per element: writer.writerow(row.values())
CsvRow(row) == WriteRow(DictValues(row))

\* number of leading elements that are dicts (the loop stops at the first
\* element without .values())
RECURSIVE DictPrefix(_, _)
DictPrefix(elems, i) ==
  IF i > Len(elems) \/ ~IsDict(elems[i]) THEN i - 1 ELSE DictPrefix(elems, i + 1)

\* header and the first n rows
CsvLines(data, n) == <<CsvHeader(data)>> \o [i \in 1..n |-> CsvRow(data.elems[i])]

(* ------------------------------- paths --------------------------------- *)

DotJson == <<".", "j", "s", "o", "n">>

DotCsv == <<".", "c", "s", "v">>

\* variant: the extension is compared without its leading dot
EndsWith_NoDot(s, suffix) ==
  /\ Len(s) >= Len(suffix) - 1
  /\ SubSeq(s, Len(s) - Len(suffix) + 2, Len(s)) = Tail(suffix)

\* str.endswith
EndsWith(s, suffix) ==
  /\ Len(s) >= Len(suffix)
  /\ SubSeq(s, Len(s) - Len(suffix) + 1, Len(s)) = suffix

JsonPath == PyStr(<<"o", ".", "j", "s", "o", "n">>)

CsvPath == PyStr(<<"o", ".", "c", "s", "v">>)

\* paths that name neither a .json nor a .csv file
OtherPaths ==
  { PyStr(<<"o", ".", "J", "S", "O", "N">>),
    PyStr(<<"c", "s", "v">>) }

\* the values of -o/--output: absent, empty, or a path
OutputArgs == {PyNone, PyStr(<<>>), JsonPath, CsvPath} \cup OtherPaths

(* ------------------------------ the world ------------------------------ *)

Methods == {"get", "post"}

\* status codes of the final response the transport hands back
Statuses == {200, 201, 300, 404, 500}

\* bodies that are not JSON
BadBodies == { <<>>, << <<"<html>">> >> }

NoResponse == [status_code |-> 0, ok |-> FALSE, value |-> Null, raw |-> <<>>]

\* a response: .status_code, and the body both as text (raw, when it is not
\* JSON) and as what response.json() returns (value, when ok)
Responses ==
  { [status_code |-> st, ok |-> TRUE, value |-> p, raw |-> <<>>] :
       st \in Statuses, p \in Payloads }
  \cup
  { [status_code |-> st, ok |-> FALSE, value |-> Null, raw |-> b] :
       st \in Statuses, b \in BadBodies }

\* response.text
Text(resp) == IF resp.ok THEN JsonDumps(resp.value) ELSE resp.raw

Absent == [exists |-> FALSE, text |-> <<>>]

OldFile == [exists |-> TRUE, text |-> << <<"old">> >>]

\* what the operating system does to the open()/write of this run
IoOutcomes == {"ok", "open_fails", "write_fails"}

(* ------------------------------- events -------------------------------- *)

StdoutEv(text) == [k |-> "print", text |-> text]

OpenEv == [k |-> "open", text |-> <<>>]

WriteEv(text) == [k |-> "write", text |-> text]

RaiseEv(what) == [k |-> "raise", text |-> << <<what>> >>]

\* print(f"{label}{text}")
Labelled(label, text) ==
  IF text = <<>> THEN << <<label>> >> ELSE Prefixed(<<label>>, text)

\* the state a method works on: effects so far, the destination file, and
\* whether exit() has been called
Run(tr, f) == [trace |-> tr, file |-> f, exited |-> FALSE, code |-> 0]

Stdout(st, text) == [st EXCEPT !.trace = Append(@, StdoutEv(text))]

\* exit(code): SystemExit, which no "except Exception" intercepts
Exit(st, code) == [st EXCEPT !.exited = TRUE, !.code = code]

(* ------------------------------ dump_output ---------------------------- *)

\* open(self.output, "w"): creates or truncates the file
Opened(st) ==
  [st EXCEPT !.trace = Append(@, OpenEv), !.file = [exists |-> TRUE, text |-> <<>>]]

\* the file object receives text and is closed
Written(st, text) ==
  [st EXCEPT !.trace = Append(@, WriteEv(text)),
             !.file = [exists |-> TRUE, text |-> text]]

\* variant: the handler reports the failure and carries on
WriteError_NoExit(st, what) ==
  Stdout([st EXCEPT !.trace = Append(@, RaiseEv(what))],
         <<<<"Error while writing output: ", what>>>>)

\* except Exception as err: print(...); exit(1)
WriteError(st, what) ==
  Exit(Stdout([st EXCEPT !.trace = Append(@, RaiseEv(what))],
             <<<<"Error while writing output: ", what>>>>), 1)

\* with open(...) as json_file: json.dump(data, json_file, indent=2)
DumpJsonFile(data, st, io) ==
  IF io = "open_fails" THEN WriteError(st, "OSError")
  ELSE IF io = "write_fails" THEN WriteError(Opened(st), "OSError")
  ELSE Written(Opened(st), JsonDumps(data))

\* with open(...) as csv_file: header, then one row per element
DumpCsvFile(data, st, io) ==
  IF io = "open_fails" THEN WriteError(st, "OSError")
  ELSE IF ~IsDict(data.elems[1]) THEN WriteError(Opened(st), "AttributeError")
  ELSE LET n == DictPrefix(data.elems, 1)
       IN IF n < Len(data.elems)
          THEN WriteError(Written(Opened(st), CsvLines(data, n)), "AttributeError")
          ELSE IF io = "write_fails" THEN WriteError(Opened(st), "OSError")
          ELSE Written(Opened(st), CsvLines(data, n))

DumpOutput(self, data, st, io) ==
  IF Truthy(self.output)
  THEN IF EndsWith(self.output.s, DotJson) THEN DumpJsonFile(data, st, io)
       ELSE IF EndsWith(self.output.s, DotCsv)
            THEN IF IsNonEmptyList(data) THEN DumpCsvFile(data, st, io)
                 ELSE Stdout(st, <<<<"Invalid data format for CSV output.">>>>)
            ELSE Stdout(st, JsonDumps(data))
  ELSE Stdout(st, JsonDumps(data))

(* ---------------------------- process_response ------------------------- *)

StatusLine(resp) == <<<<"HTTP Status Code: ", ToString(resp.status_code)>>>>

\* variant: the status line is not printed
EchoStatus_Silent(st, resp) == st

\* print(f"HTTP Status Code: {response.status_code}")
EchoStatus(st, resp) == Stdout(st, StatusLine(resp))

\* variant: only client errors raise
RaiseForStatus_ClientErrors(status) == status >= 400 /\ status < 500

\* response.raise_for_status() raises HTTPError
RaiseForStatus(status) == status >= 400 /\ status < 600

\* except requests.exceptions.HTTPError
HttpErrorHandler(st) == Exit(Stdout(st, <<<<"HTTP Error: ", "<http_err>">>>>), 1)

\* variant: the parse error is reported and the run carries on
ErrorHandler_NoExit(st) == Stdout(st, <<<<"Error: ", "<err>">>>>)

\* except Exception, reached when response.json() raises
ErrorHandler(st) == Exit(Stdout(st, <<<<"Error: ", "<err>">>>>), 1)

\* variant: any success status counts as created
IsCreated_AnySuccess(status) == status >= 200 /\ status < 300

\* response.status_code == 201
IsCreated(status) == status = 201

\* the status check after the dump of a POST response
PostOutcome(st, resp) ==
  IF IsCreated(resp.status_code)
  THEN Stdout(st, <<<<"Post request successful.">>>>)
  ELSE Exit(Stdout(st, Labelled("Error: ", Text(resp))), 1)

\* variant: the exit raised inside dump_output is caught by the generic
\* handler of process_response
ProcessResponse_CatchesExit(self, resp, st0, io) ==
  LET st1 == EchoStatus(st0, resp)
  IN IF RaiseForStatus(resp.status_code) THEN HttpErrorHandler(st1)
     ELSE IF ~resp.ok THEN ErrorHandler(st1)
     ELSE LET st2 == DumpOutput(self, resp.value, st1, io)
          IN IF st2.exited THEN ErrorHandler(st2)
             ELSE IF self.method = "get" THEN st2
             ELSE PostOutcome(st2, resp)

ProcessResponse(self, resp, st0, io) ==
  LET st1 == EchoStatus(st0, resp)
  IN IF RaiseForStatus(resp.status_code) THEN HttpErrorHandler(st1)
     ELSE IF ~resp.ok THEN ErrorHandler(st1)
     ELSE LET st2 == DumpOutput(self, resp.value, st1, io)
          IN IF st2.exited THEN st2
             ELSE IF self.method = "get" THEN st2
             ELSE PostOutcome(st2, resp)

(* ------------------------------- actions ------------------------------- *)

Init ==
  /\ pc = "main"
  /\ args \in [method : Methods, endpoint : {"/posts"}, data : {PyNone}, output : OutputArgs]
  /\ client = [method |-> "", endpoint |-> "", data |-> PyNone, output |-> PyNone]
  /\ response = NoResponse
  /\ trace = <<>>
  /\ file0 \in {Absent, OldFile}
  /\ file = file0
  /\ exitCode = 0
  /\ requests = 0

\* main(): build the client and set its output attribute
Main ==
  /\ pc = "main"
  /\ client' = [method |-> args.method, endpoint |-> args.endpoint, data |-> args.data,
                output |-> IF Truthy(args.output) THEN args.output ELSE PyNone]
  /\ pc' = "send"
  /\ UNCHANGED <<args, response, trace, file, file0, exitCode, requests>>

\* client.send_request() returns the transport's response
SendRequest ==
  /\ pc = "send"
  /\ \E resp \in Responses : response' = resp
  /\ requests' = requests + 1
  /\ pc' = "process"
  /\ UNCHANGED <<args, client, trace, file, file0, exitCode>>

\* the transport raises (no connection): nothing in main() catches it, the
\* interpreter prints the traceback and ends the process with status 1
SendRequestFails ==
  /\ pc = "send"
  /\ requests' = requests + 1
  /\ trace' = Append(trace, RaiseEv("ConnectionError"))
  /\ exitCode' = 1
  /\ pc' = "exited"
  /\ UNCHANGED <<args, client, response, file, file0>>

\* client.process_response(response), then main() returns
Process ==
  /\ pc = "process"
  /\ \E io \in IoOutcomes :
       LET st == ProcessResponse(client, response, Run(trace, file), io)
       IN /\ trace' = st.trace
          /\ file' = st.file
          /\ exitCode' = IF st.exited THEN st.code ELSE 0
  /\ pc' = "exited"
  /\ UNCHANGED <<args, client, response, file0, requests>>

Next == Main \/ SendRequest \/ SendRequestFails \/ Process

Spec == Init /\ [][Next]_vars

(* ------------------- reading a rendered text back ---------------------- *)

Bad == [t |-> "bad", s |-> "", items |-> <<>>, elems |-> <<>>]

RECURSIVE Flatten(_, _)
Flatten(lines, i) == IF i > Len(lines) THEN <<>> ELSE lines[i] \o Flatten(lines, i + 1)

IsLayout(tok) == tok \in {"  ", ",", ": "}

\* the tokens of a text that are not indentation or separators
Significant(lines) == SelectSeq(Flatten(lines, 1), LAMBDA tok : ~IsLayout(tok))

ScalarOf(tok) ==
  CASE tok = "null"  -> Null
    [] tok = "1"     -> Num("1")
    [] tok = "2"     -> Num("2")
    [] tok = "\"a\"" -> Str("a")
    [] tok = "\"b\"" -> Str("b")
    [] OTHER         -> Bad

KeyOf(tok) ==
  CASE tok = "\"id\""   -> "id"
    [] tok = "\"name\"" -> "name"
    [] OTHER            -> "?"

RECURSIVE ParseValue(_, _)
RECURSIVE ParseElems(_, _, _)
RECURSIVE ParseItems(_, _, _)

ParseElems(toks, i, acc) ==
  IF i > Len(toks) THEN [v |-> Bad, n |-> i]
  ELSE IF toks[i] = "]" THEN [v |-> List(acc), n |-> i + 1]
  ELSE LET r == ParseValue(toks, i) IN ParseElems(toks, r.n, Append(acc, r.v))

ParseItems(toks, i, acc) ==
  IF i > Len(toks) THEN [v |-> Bad, n |-> i]
  ELSE IF toks[i] = "}" THEN [v |-> Map(acc), n |-> i + 1]
  ELSE LET r == ParseValue(toks, i + 1)
       IN ParseItems(toks, r.n, Append(acc, <<KeyOf(toks[i]), r.v>>))

ParseValue(toks, i) ==
  IF i > Len(toks) THEN [v |-> Bad, n |-> i]
  ELSE CASE toks[i] = "[]" -> [v |-> List(<<>>), n |-> i + 1]
         [] toks[i] = "{}" -> [v |-> Map(<<>>), n |-> i + 1]
         [] toks[i] = "["  -> ParseElems(toks, i + 1, <<>>)
         [] toks[i] = "{"  -> ParseItems(toks, i + 1, <<>>)
         [] OTHER          -> [v |-> ScalarOf(toks[i]), n |-> i + 1]

\* the JSON value a text denotes, Bad when it denotes none
ReadJson(lines) ==
  LET toks == Significant(lines)
      r == ParseValue(toks, 1)
  IN IF toks # <<>> /\ r.n = Len(toks) + 1 THEN r.v ELSE Bad

\* the cells of one line of a CSV file
Cells(line) == SelectSeq(line, LAMBDA tok : tok \notin {",", "\r\n"})

(* --------------------- vocabulary of the properties -------------------- *)

Exited == pc = "exited"

Responded == response # NoResponse

Status == response.status_code

Payload == response.value

Is2xx(code) == code \in 200..299

Is4xx5xx(code) == code \in 400..599

IsGet == client.method = "get"

IsPost == client.method = "post"

JsonTarget == args.output = JsonPath

CsvTarget == args.output = CsvPath

StdoutTarget == args.output \in {PyNone, PyStr(<<>>)} \cup OtherPaths

\* the body parsed and the status did not raise: dump_output was called
Dumped == Responded /\ ~Is4xx5xx(Status) /\ response.ok

IsListOfDicts(v) ==
  /\ v.t = "list"
  /\ v.elems # <<>>
  /\ \A i \in DOMAIN v.elems : v.elems[i].t = "map"

Prints == { i \in DOMAIN trace : trace[i].k = "print" }

Printed(text) == \E i \in Prints : trace[i].text = text

TimesPrinted(text) == Cardinality({ i \in Prints : trace[i].text = text })

\* a message that starts with label was printed
PrintedLabel(label) == \E i \in Prints : trace[i].text[1][1] = label

StatusMsg == <<<<"HTTP Status Code: ", ToString(Status)>>>>

SuccessMsg == <<<<"Post request successful.">>>>

InvalidCsvMsg == <<<<"Invalid data format for CSV output.">>>>

\* "Error: " followed by the response text
ErrorTextMsg ==
  LET body == Text(response)
  IN IF body = <<>> THEN <<<<"Error: ">>>>
     ELSE << <<"Error: ">> \o body[1] >> \o SubSeq(body, 2, Len(body))

\* the payload was printed on stdout at position i
PayloadPrintedAt(i) == trace[i].k = "print" /\ ReadJson(trace[i].text) = Payload

PayloadPrinted == \E i \in DOMAIN trace : PayloadPrintedAt(i)

FileEvents == { i \in DOMAIN trace : trace[i].k \in {"open", "write"} }

FileTouched == file # file0 \/ FileEvents # {}

\* an exception was raised while the output was being written
WriteRaised == \E i \in DOMAIN trace : trace[i].k = "raise" /\ trace[i].text # <<<<"ConnectionError">>>>

\* the file holds the CSV rendering of a list of dicts: a header and one
\* row per element, each with the element's own cells
HoldsCsv(f, v) ==
  /\ f.exists
  /\ Len(f.text) = 1 + Len(v.elems)
  /\ Cells(f.text[1]) = [j \in 1..Len(v.elems[1].items) |-> v.elems[1].items[j][1]]
  /\ \A i \in DOMAIN v.elems :
       Cells(f.text[i + 1]) = [j \in 1..Len(v.elems[i].items) |-> v.elems[i].items[j][2].s]

\* the payload reached the target selected by the output path, by the
\* effect at position i of the trace
RenderedAt(i) ==
  IF JsonTarget
  THEN trace[i].k = "write" /\ file.exists /\ file.text = trace[i].text
         /\ ReadJson(file.text) = Payload
  ELSE IF CsvTarget
  THEN trace[i].k = "write" /\ file.text = trace[i].text
         /\ IsListOfDicts(Payload) /\ HoldsCsv(file, Payload)
  ELSE PayloadPrintedAt(i)

Rendered == \E i \in DOMAIN trace : RenderedAt(i)

(* ------------------------------ properties ----------------------------- *)

\* C1 as stated: every response with a status outside 200..299 prints the
\* status line, never reaches the output serializer (no payload print, no
\* file created or modified), prints an error message and exits 1.
C1_NonSuccessStatusIsFatal ==
  (Exited /\ Responded /\ ~Is2xx(Status)) =>
     /\ trace[1] = StdoutEv(StatusMsg)
     /\ ~PayloadPrinted /\ ~FileTouched /\ ~Printed(InvalidCsvMsg)
     /\ PrintedLabel("HTTP Error: ") \/ PrintedLabel("Error: ")
     /\ exitCode = 1

\* C1 amended: every response with a status in 400..599, GET or POST, any
\* output target, prints the status line and then the HTTP error message
\* and nothing else, leaves the output file as it was, and exits 1.
C1_ErrorStatusIsFatal ==
  (Exited /\ Responded /\ Is4xx5xx(Status)) =>
     /\ Len(trace) = 2
     /\ trace[1] = StdoutEv(StatusMsg)
     /\ trace[2].k = "print" /\ trace[2].text[1][1] = "HTTP Error: "
     /\ file = file0
     /\ exitCode = 1

\* a POST answered 404 with a JSON body and a .json target has run
C1_Witness ==
  Exited /\ IsPost /\ Status = 404 /\ response.ok /\ JsonTarget /\ Payload.t = "map"

\* C2 as stated: a POST answered 2xx other than 201 with a JSON body first
\* renders the payload to the selected target, then prints "Error: <text>",
\* then exits 1, never printing the success message; a GET with the same
\* response exits 0.  (Read with the write of the output not failing.)
C2_PostNot201RendersThenFails ==
  /\ (Exited /\ IsPost /\ Responded /\ Is2xx(Status) /\ Status # 201 /\ response.ok
        /\ ~WriteRaised) =>
        /\ \E i \in DOMAIN trace : RenderedAt(i) /\ i < Len(trace)
        /\ trace[Len(trace)] = StdoutEv(ErrorTextMsg)
        /\ exitCode = 1
        /\ ~Printed(SuccessMsg)
  /\ (Exited /\ IsGet /\ Responded /\ Is2xx(Status) /\ Status # 201 /\ response.ok
        /\ ~WriteRaised) =>
        exitCode = 0

\* C2 amended: for such a POST the serializer runs right after the status
\* line.  If it returns, the payload was rendered to the target (or the
\* target is .csv, the payload is not a non-empty list, and only the
\* diagnostic was printed), "Error: <text>" is the last thing printed and
\* the exit code is 1.  If the write raised, the run ends with "Error while
\* writing output" and exit code 1 and no "Error: <text>".  The success
\* message is never printed.  The GET exits 0 unless the write raised.
C2_PostNot201DumpsThenFails ==
  /\ (Exited /\ IsPost /\ Responded /\ Is2xx(Status) /\ Status # 201 /\ response.ok) =>
        /\ trace[1] = StdoutEv(StatusMsg)
        /\ exitCode = 1
        /\ ~Printed(SuccessMsg)
        /\ IF WriteRaised
           THEN /\ trace[Len(trace)].text[1][1] = "Error while writing output: "
                /\ ~PrintedLabel("Error: ")
           ELSE /\ trace[Len(trace)] = StdoutEv(ErrorTextMsg)
                /\ TimesPrinted(ErrorTextMsg) = 1
                /\ \E i \in 2..(Len(trace) - 1) :
                      \/ RenderedAt(i)
                      \/ /\ CsvTarget /\ ~IsNonEmptyList(Payload)
                         /\ trace[i] = StdoutEv(InvalidCsvMsg)
  /\ (Exited /\ IsGet /\ Responded /\ Is2xx(Status) /\ Status # 201 /\ response.ok) =>
        exitCode = (IF WriteRaised THEN 1 ELSE 0)

\* a POST answered 200 wrote its payload to the .json file and then failed
C2_Witness ==
  /\ Exited /\ IsPost /\ Status = 200 /\ response.ok /\ JsonTarget
  /\ Len(trace) = 4 /\ RenderedAt(3) /\ trace[4] = StdoutEv(ErrorTextMsg)
  /\ exitCode = 1

\* C3 as stated: for a POST answered 201 with a JSON body, whenever the
\* success message is printed the payload has been rendered to the chosen
\* target, for every target and payload shape.
C3_SuccessImpliesRendered ==
  (Exited /\ IsPost /\ Status = 201 /\ response.ok /\ Printed(SuccessMsg)) => Rendered

\* C3 amended: whenever the success message is printed it is the last
\* thing printed, the exit code is 0, and before it either the payload was
\* rendered to the chosen target or the target is .csv, the payload is not
\* a non-empty list, only the diagnostic was printed and the file is
\* untouched.
C3_SuccessImpliesDumpReturned ==
  (Exited /\ IsPost /\ Status = 201 /\ response.ok /\ Printed(SuccessMsg)) =>
     /\ trace[Len(trace)] = StdoutEv(SuccessMsg)
     /\ exitCode = 0
     /\ ~WriteRaised
     /\ \E i \in 2..(Len(trace) - 1) :
           \/ RenderedAt(i)
           \/ /\ CsvTarget /\ ~IsNonEmptyList(Payload)
              /\ trace[i] = StdoutEv(InvalidCsvMsg) /\ ~FileTouched

\* a POST answered 201 with one mapping and a .csv target printed success
C3_Witness ==
  /\ Exited /\ IsPost /\ Status = 201 /\ response.ok /\ CsvTarget
  /\ Payload.t = "map" /\ Len(Payload.items) = 2
  /\ Printed(SuccessMsg) /\ Printed(InvalidCsvMsg)

\* C4: with a .csv target, every payload that is not a non-empty list of
\* mappings gets the diagnostic, leaves the file untouched and does not end
\* the process (a GET exits 0).
C4_BadCsvShapeIsSoft ==
  (Exited /\ Dumped /\ CsvTarget /\ ~IsListOfDicts(Payload)) =>
     /\ Printed(InvalidCsvMsg)
     /\ ~FileTouched
     /\ ~PrintedLabel("Error while writing output: ")
     /\ IsGet => exitCode = 0

\* C5 as stated: the exit code is 0 or 1, and is 1 exactly when the
\* transport failed, the status is not 2xx, the body is not JSON, a POST
\* was not answered 201, or writing the output raised.
C5_ExitCodeNon2xx ==
  Exited =>
     /\ exitCode \in {0, 1}
     /\ exitCode = 1 <=>
          \/ ~Responded
          \/ ~Is2xx(Status)
          \/ ~response.ok
          \/ IsPost /\ Status # 201
          \/ WriteRaised

\* C5 amended: the same with "the status is in 400..599" for "the status
\* is not 2xx".
C5_ExitCode ==
  Exited =>
     /\ exitCode \in {0, 1}
     /\ exitCode = 1 <=>
          \/ ~Responded
          \/ Is4xx5xx(Status)
          \/ ~response.ok
          \/ IsPost /\ Status # 201
          \/ WriteRaised

\* a GET answered 300 with a JSON body ended with exit code 0
C5_Witness == Exited /\ IsGet /\ Status = 300 /\ response.ok /\ exitCode = 0 /\ PayloadPrinted

\* C6: the output path selects exactly one sink.  A path ending in .json:
\* the JSON file, nothing printed as payload.  A path ending in .csv: the
\* CSV file, nothing printed as payload.  No path, an empty path or any
\* other ending (".JSON", "csv"): stdout, the payload printed once and the
\* file neither created nor modified.
C6_SinkSelection ==
  (Exited /\ Dumped) =>
     /\ JsonTarget =>
           /\ ~PayloadPrinted
           /\ ~Printed(InvalidCsvMsg)
           /\ ~WriteRaised => (file.exists /\ ReadJson(file.text) = Payload)
     /\ CsvTarget =>
           /\ ~PayloadPrinted
           /\ (~WriteRaised /\ IsNonEmptyList(Payload)) => HoldsCsv(file, Payload)
           /\ ~IsNonEmptyList(Payload) => (Printed(InvalidCsvMsg) /\ ~FileTouched)
     /\ StdoutTarget =>
           /\ Cardinality({ i \in DOMAIN trace : PayloadPrintedAt(i) }) = 1
           /\ ~FileTouched
           /\ ~WriteRaised
           /\ ~Printed(InvalidCsvMsg)

\* a path ending in ".JSON" sent a list to stdout and created no file
C6_Witness ==
  /\ Exited /\ Dumped /\ args.output = PyStr(<<"o", ".", "J", "S", "O", "N">>)
  /\ Payload.t = "list" /\ Len(Payload.elems) = 2
  /\ PayloadPrinted /\ file0 = Absent /\ file = Absent

\* C7 as stated: every GET answered 2xx with a JSON body leaves the whole
\* payload in the target, for every target and every payload shape.  (Read
\* with the write of the output not failing.)
C7_GetRendersEverywhere ==
  (Exited /\ IsGet /\ Responded /\ Is2xx(Status) /\ response.ok /\ ~WriteRaised) => Rendered

\* C7 amended: when the write does not raise, a stdout target gets the
\* payload printed once as JSON text that reads back as the payload, a
\* .json target holds JSON text that reads back as the payload, and a .csv
\* target holds the payload only when it is a non-empty list of mappings:
\* then the file has the first element's keys and every element's values.
\* With a .csv target and any other payload no file is written.
C7_GetRenders ==
  (Exited /\ IsGet /\ Responded /\ Is2xx(Status) /\ response.ok /\ ~WriteRaised) =>
     /\ exitCode = 0
     /\ StdoutTarget =>
          /\ Len(trace) = 2 /\ PayloadPrintedAt(2)
          /\ trace[2].text = JsonDumps(Payload)
     /\ JsonTarget =>
          /\ Len(trace) = 3 /\ RenderedAt(3)
     /\ CsvTarget =>
          IF IsListOfDicts(Payload) THEN Len(trace) = 3 /\ RenderedAt(3)
          ELSE ~FileTouched /\ ~Rendered

\* a GET answered 200 with null printed it on stdout
C7_Witness ==
  /\ Exited /\ IsGet /\ Status = 200 /\ response.ok /\ args.output = PyNone
  /\ Payload = Null /\ PayloadPrintedAt(2)

\* C8: when opening or writing the destination file fails, "Error while
\* writing output: <error>" is printed once, is the last thing printed, the
\* exit code is 1, no "Error: ..." line follows from process_response, and
\* the success message is not printed.
C8_WriteFailureIsFatal ==
  (Exited /\ WriteRaised) =>
     /\ trace[Len(trace)].k = "print"
     /\ trace[Len(trace)].text[1][1] = "Error while writing output: "
     /\ Cardinality({ i \in Prints : trace[i].text[1][1] = "Error while writing output: " }) = 1
     /\ exitCode = 1
     /\ ~PrintedLabel("Error: ")
     /\ ~Printed(SuccessMsg)

\* a POST answered 201 could not open its .json file
C8_Witness ==
  /\ Exited /\ IsPost /\ Status = 201 /\ response.ok /\ JsonTarget
  /\ WriteRaised /\ file = file0 /\ FileEvents = {}

\* the value of a mapping for a key, Null when it has none
ValueFor(row, key) ==
  IF \E j \in DOMAIN row.items : row.items[j][1] = key
  THEN row.items[CHOOSE j \in DOMAIN row.items : row.items[j][1] = key][2]
  ELSE Null

\* the keys of the first element, in its order
HeaderKeys(v) == [j \in 1..Len(v.elems[1].items) |-> v.elems[1].items[j][1]]

\* row i+1 holds element i's value for each header key, in header order
RowFollowsHeader(v, i) ==
  Cells(file.text[i + 1]) = [j \in 1..Len(HeaderKeys(v)) |-> ValueFor(v.elems[i], HeaderKeys(v)[j]).s]

\* every element lists the keys of the first, in the same order
Homogeneous(v) ==
  \A i \in DOMAIN v.elems :
     [j \in 1..Len(v.elems[i].items) |-> v.elems[i].items[j][1]] = HeaderKeys(v)

\* C9 as stated: for a non-empty list of mappings the .csv file has 1 + N
\* rows, the first the keys of the first element, and row i+1 the values of
\* element i for the header keys in header order, also when later elements
\* order their keys differently or have other keys.
C9_RowsFollowHeader ==
  (Exited /\ Dumped /\ CsvTarget /\ IsListOfDicts(Payload) /\ ~WriteRaised) =>
     /\ Len(file.text) = 1 + Len(Payload.elems)
     /\ Cells(file.text[1]) = HeaderKeys(Payload)
     /\ \A i \in DOMAIN Payload.elems : RowFollowsHeader(Payload, i)

\* C9 amended: 1 + N rows, each ending in the line terminator; the first
\* is the keys of the first element; row i+1 is the values of element i in
\* that element's own order, which is the header order when every element
\* lists the same keys in the same order as the first.
C9_RowsFollowElements ==
  (Exited /\ Dumped /\ CsvTarget /\ IsListOfDicts(Payload) /\ ~WriteRaised) =>
     /\ HoldsCsv(file, Payload)
     /\ \A i \in DOMAIN file.text :
           /\ file.text[i][Len(file.text[i])] = "\r\n"
           /\ Len(file.text[i]) = 2 * Len(Cells(file.text[i])) + (IF Cells(file.text[i]) = <<>> THEN 1 ELSE 0)
     /\ Homogeneous(Payload) => \A i \in DOMAIN Payload.elems : RowFollowsHeader(Payload, i)

\* [{"id":1,"name":"a"},{"id":2,"name":"b"}] was written to the .csv file
C9_Witness ==
  /\ Exited /\ CsvTarget /\ Dumped
  /\ Payload = List(<< Map(<< <<"id", Num("1")>>, <<"name", Str("a")>> >>),
                       Map(<< <<"id", Num("2")>>, <<"name", Str("b")>> >>) >>)
  /\ file.text = << <<"id", ",", "name", "\r\n">>, <<"1", ",", "a", "\r\n">>,
                    <<"2", ",", "b", "\r\n">> >>

\* C10: one transport request per run; when a response comes back the
\* status line is printed exactly once and before every other effect; when
\* the transport fails it is never printed and the file is untouched.
C10_StatusLineFirst ==
  /\ requests <= 1
  /\ pc \in {"main", "send", "process"} => (trace = <<>> /\ file = file0)
  /\ pc \in {"process", "exited"} => requests = 1
  /\ (Exited /\ Responded) =>
        /\ trace[1] = StdoutEv(StatusMsg)
        /\ TimesPrinted(StatusMsg) = 1
        /\ Cardinality({ i \in Prints : trace[i].text[1][1] = "HTTP Status Code: " }) = 1
  /\ (Exited /\ ~Responded) =>
        /\ Prints = {}
        /\ ~FileTouched
        /\ exitCode = 1

\* a run that printed the status line, then opened and wrote the file,
\* then printed the success message
C10_Witness ==
  /\ Exited /\ Responded /\ Len(trace) = 4
  /\ trace[2].k = "open" /\ trace[3].k = "write" /\ trace[4] = StdoutEv(SuccessMsg)

====
